---- MODULE Spec2Model ----
(***************************************************************************)
(* A model of the pcommands of tools/batools/pcommands2.py.                *)
(*                                                                         *)
(* Every pcommand is one action: the dispatcher sets sys.argv and the      *)
(* batch flag, calls the function, and the function runs to completion     *)
(* (the library has no concurrency).  The persistent state is the part of  *)
(* the filesystem and of the environment the commands read and write;      *)
(* `last` records what the caller can observe of the latest invocation: the *)
(* exception raised (or "ok"), what was printed, and the ordered trace of  *)
(* the side effects the run performed.                                     *)
(*                                                                         *)
(* Strings that the code slices or joins are sequences of one-character    *)
(* strings, so that os.path.join, fpath[13:], str.endswith and str.replace *)
(* are computed the way the code computes them.                            *)
(***************************************************************************)
EXTENDS Integers, Sequences, FiniteSets, TLC

VARIABLES
    files,             \* regular files of the project tree (component paths)
    dirs,              \* directories of the project tree (component paths)
    manifest_public,   \* JSON array in src/assets/.asset_manifest_public.json
    manifest_private,  \* JSON array in src/assets/.asset_manifest_private.json
    now,               \* the filesystem clock
    prefab,            \* build/prefab/lib/.../libballisticaplus.a, per target path
    libdir,            \* whether <builddir>/prefablib exists
    lib,               \* <builddir>/prefablib/libballisticaplus.a
    src,               \* the archive source directory and its ABI libraries
    dst,               \* the archive destination directory and its files
    tools_spinoff,     \* what tools/spinoff is
    submodule,         \* what submodules/ballistica is
    has_wslpath,       \* whether `which wslpath` finds the helper
    environ,           \* value of WSL_BUILD_CHECK_WIN_DRIVE_IGNORE, or Unset
    cwd_win,           \* what wslpath prints for the working directory
    wsl_exists,        \* the WSL paths that exist
    written,           \* files produced by the generator commands
    last,              \* the record of the latest pcommand invocation
    nruns              \* invocations so far, where a specification counts them

assetVars == <<files, dirs, manifest_public, manifest_private>>
prefabVars == <<now, prefab, libdir, lib>>
archiveVars == <<src, dst>>
spinoffVars == <<tools_spinoff, submodule>>
wslVars == <<has_wslpath, environ, cwd_win, wsl_exists>>

vars == <<assetVars, prefabVars, archiveVars, spinoffVars, wslVars, written, last,
          nruns>>

----------------------------------------------------------------------------
(* Bounds of the model.                                                    *)

\* Number of pcommand invocations in one behaviour of the specification that
\* runs every pcommand.
MaxRuns == 2

\* Longest JSON array read from a manifest file.
MaxManifestLen == 1

\* Latest modification time on the filesystem clock.
MaxTime == 2

----------------------------------------------------------------------------
(* Strings as character sequences, and the str / os.path operations used.  *)

Slash == "/"

S_build == <<"b", "u", "i", "l", "d">>
S_assets == <<"a", "s", "s", "e", "t", "s">>
S_a == <<"a">>
S_b == <<"b">>
S_x == <<"x">>
S_y == <<"y">>

\* os.path.join(a, b) of posixpath, for two arguments.
os_path_join(a, b) ==
    IF Len(b) > 0 /\ b[1] = Slash THEN b
    ELSE IF a = <<>> \/ a[Len(a)] = Slash THEN a \o b
    ELSE a \o <<Slash>> \o b

\* Python's s[n:] for n >= 0.
StrFrom(s, n) == SubSeq(s, n + 1, Len(s))

\* Python's list -> set conversion.
ToSet(seq) == {seq[i] : i \in 1..Len(seq)}

IsPrefix(p, q) == Len(p) <= Len(q) /\ SubSeq(q, 1, Len(p)) = p

Front(s) == SubSeq(s, 1, Len(s) - 1)

Last(s) == s[Len(s)]

----------------------------------------------------------------------------
(* The invocation record.                                                  *)

\* Exceptions a pcommand can end with, as the dispatcher sees them.
OK == "ok"
CleanError == "CleanError"
CalledProcessError == "CalledProcessError"
SystemExit255 == "SystemExit(255)"
UnicodeDecodeError == "UnicodeDecodeError"

\* `pre` is the state the command found; `prev` says which invocation came
\* right before this one and how it ended.
Run(cmd, argv, batch, result, msg, trace, out, pre) ==
    [cmd |-> cmd, argv |-> argv, batch |-> batch, result |-> result,
     msg |-> msg, trace |-> trace, out |-> out, pre |-> pre,
     prev |-> [cmd |-> last.cmd, batch |-> last.batch, result |-> last.result]]

NoRun ==
    [cmd |-> "", argv |-> <<>>, batch |-> FALSE, result |-> "", msg |-> "",
     trace |-> <<>>, out |-> <<>>, pre |-> <<>>,
     prev |-> [cmd |-> "", batch |-> FALSE, result |-> ""]]

\* Kinds of side effect in a trace that change the filesystem or start a
\* subprocess or hand control to another subsystem.
FsChanges == {"unlink", "makedirs", "mkdir", "write"}
Subprocesses == {"find", "make", "cp", "rm", "tar", "which", "wslpath", "MSBuild"}
Delegations == {"FeatureSet.get_all_for_project", "efrotools.py_examine",
                "get_target", "spinoff_test",
                "acquire_binary_for_python_command"}

\* pcommand.disallow_in_batch(): raises CleanError when the dispatcher runs
\* in batch mode.
BatchMsg == "This pcommand does not support batch mode."

disallow_in_batch(batch) == batch

----------------------------------------------------------------------------
(* clean_orphaned_assets                                                   *)

AssetsDir == <<S_build, S_assets>>

\* The literal 'build/assets' handed to os.walk.
AssetsTop == S_build \o <<Slash>> \o S_assets

\* The root string os.walk yields for directory d at or below build/assets:
\* os.walk joins the top with each directory name on the way down.
RECURSIVE WalkRoot(_)
WalkRoot(d) ==
    IF d = AssetsDir THEN AssetsTop
    ELSE os_path_join(WalkRoot(Front(d)), Last(d))

\* The (root, fname) pairs os.walk('build/assets') yields; nothing when the
\* top directory does not exist (os.walk swallows the scandir error).
WalkEntries(fs, ds) ==
    IF AssetsDir \notin ds THEN {}
    ELSE {f \in fs : Len(f) > Len(AssetsDir) /\ IsPrefix(AssetsDir, f)}

\* fpath = os.path.join(root, fname)
fpath_of(f) == os_path_join(WalkRoot(Front(f)), Last(f))

\* The slice taken one character early: fpath[12:], which keeps the "/".
fpathrel_off_by_one(fpath) == StrFrom(fpath, 12)

\* fpathrel = fpath[13:]
fpathrel(fpath) == StrFrom(fpath, 13)

\* manifest = set(public) | set(private)
manifest_of(pub, priv) == ToSet(pub) \cup ToSet(priv)

\* The files the walk unlinks.
Orphans(fs, ds, manifest) ==
    {f \in WalkEntries(fs, ds) : fpathrel(fpath_of(f)) \notin manifest}

\* find build/assets -depth -empty -type d -delete: exit status 1 when the
\* start point is missing; otherwise every directory at or below it with no
\* file anywhere beneath it goes (children first, so chains of empty
\* directories go whole, the start point included).
find_rc(ds) == IF AssetsDir \in ds THEN 0 ELSE 1

find_delete_empty_dirs(fs, ds) ==
    IF AssetsDir \notin ds THEN ds
    ELSE {d \in ds : ~IsPrefix(AssetsDir, d)
                     \/ \E f \in fs : Len(f) > Len(d) /\ IsPrefix(d, f)}

assetsPre == [files |-> files, dirs |-> dirs]

clean_orphaned_assets(argv, batch) ==
    /\ UNCHANGED <<manifest_public, manifest_private>>
    /\ UNCHANGED <<prefabVars, archiveVars, spinoffVars, wslVars, written>>
    /\ LET done(result, msg, trace, out) ==
               last' = Run("clean_orphaned_assets", argv, batch, result, msg,
                           trace, out, assetsPre)
       IN
       IF disallow_in_batch(batch)
       THEN done(CleanError, BatchMsg, <<>>, {}) /\ UNCHANGED <<files, dirs>>
       ELSE LET manifest == manifest_of(manifest_public, manifest_private)
                gone == Orphans(files, dirs, manifest)
                kept == files \ gone
                unlinks == [i \in 1..Cardinality(gone) |-> "unlink"]
                trace == <<"chdir", "open", "open", "walk">> \o unlinks
                            \o <<"find">>
                \* one "Removing orphaned asset file" notice per unlink; the
                \* walk's order is the directory listing's, so a set
                notices == {fpath_of(f) : f \in gone}
            IN /\ files' = kept
               /\ dirs' = find_delete_empty_dirs(kept, dirs)
               /\ IF find_rc(dirs) = 0
                  THEN done(OK, "", trace, notices)
                  ELSE done(CalledProcessError, "find", trace, notices)

----------------------------------------------------------------------------
(* update_cmake_prefab_lib                                                 *)

\* batools.build.get_current_prefab_platform(wsl_gives_windows=False), an
\* external helper: one fixed host platform.
get_current_prefab_platform == "linux_x86_64"

BuildDir == "build/cmake/debug"

suffix_of(buildtype) == IF buildtype = "server" THEN "_server" ELSE "_gui"

\* target = f'build/prefab/lib/{platform}{suffix}/{mode}/libballisticaplus.a'
target_of(buildtype, mode) ==
    "build/prefab/lib/" \o get_current_prefab_platform \o suffix_of(buildtype)
        \o "/" \o mode \o "/libballisticaplus.a"

TargetPaths ==
    {target_of(b, m) : b \in {"standard", "server"}, m \in {"debug", "release"}}

NoFile == [exists |-> FALSE, mtime |-> 0, content |-> ""]

File(mtime, content) == [exists |-> TRUE, mtime |-> mtime, content |-> content]

\* The comparison made strict: time1 < time2.
needs_update_on_equal(time1, libexists, time2) ==
    ~(libexists /\ time1 < time2)

\* update = True; if os.path.exists(libpath): if time1 <= time2: update = False
needs_update(time1, libexists, time2) ==
    ~(libexists /\ time1 <= time2)

\* The count check as a lower bound only: len(sys.argv) < 5.
update_cmake_accepts_extra_args(argv) == Len(argv) < 5

\* if len(sys.argv) != 5
update_cmake_bad_args(argv) == Len(argv) # 5

prefabPre == [lib |-> lib, libdir |-> libdir, prefab |-> prefab, now |-> now]

\* What `make target` can do: fail; find the target up to date (only when it
\* exists); or rebuild it, which stamps it with the time the build ends.
MakeOutcomes(target) ==
    {"fail", "rebuilt"} \cup (IF prefab[target].exists THEN {"uptodate"} ELSE {})

update_cmake_prefab_lib(argv, batch) ==
    /\ UNCHANGED <<assetVars, archiveVars, spinoffVars, wslVars, written>>
    /\ LET done(result, msg, trace) ==
               last' = Run("update_cmake_prefab_lib", argv, batch, result, msg,
                           trace, <<>>, prefabPre)
       IN
       IF disallow_in_batch(batch)
       THEN done(CleanError, BatchMsg, <<>>) /\ UNCHANGED prefabVars
       ELSE IF update_cmake_bad_args(argv)
       THEN /\ done(CleanError,
                    "Expected 3 args (standard/server, debug/release, build-dir)",
                    <<>>)
            /\ UNCHANGED prefabVars
       ELSE IF argv[3] \notin {"standard", "server"}
       THEN done(CleanError, "Invalid buildtype", <<>>) /\ UNCHANGED prefabVars
       ELSE IF argv[4] \notin {"debug", "release"}
       THEN done(CleanError, "Invalid mode", <<>>) /\ UNCHANGED prefabVars
       ELSE
       LET target == target_of(argv[3], argv[4]) IN
       \* subprocess.run(['make', target], check=True); t1 is when it ends
       \E make \in MakeOutcomes(target), t1 \in now..MaxTime :
       /\ make # "rebuilt" => t1 = now
       /\ IF make = "fail"
          THEN /\ done(CalledProcessError, "make", <<"make">>)
               /\ UNCHANGED prefabVars
          ELSE
          LET built == IF make = "rebuilt"
                       THEN [prefab EXCEPT ![target] =
                                File(t1, target \o "@" \o ToString(t1))]
                       ELSE prefab
              time1 == built[target].mtime
              time2 == lib.mtime
              update == needs_update(time1, lib.exists, time2)
              mk == IF libdir THEN <<>> ELSE <<"makedirs">>
          IN
          /\ prefab' = built
          /\ IF ~update
             THEN /\ done(OK, "", <<"make">>)
                  /\ now' = t1
                  /\ UNCHANGED <<libdir, lib>>
             ELSE \* subprocess.run(['cp', target, libdir], check=True), at t2
                  \E cp_ok \in BOOLEAN, t2 \in t1..MaxTime :
                  /\ libdir' = TRUE
                  /\ now' = t2
                  /\ IF cp_ok
                     THEN /\ lib' = File(t2, built[target].content)
                          /\ done(OK, "", <<"make">> \o mk \o <<"cp">>)
                     ELSE /\ lib' = lib
                          /\ done(CalledProcessError, "cp",
                                  <<"make">> \o mk \o <<"cp">>)

----------------------------------------------------------------------------
(* android_archive_unstripped_libs                                         *)

SrcPath == "build/android/unstripped"
DstPath == "build/archive/libs"

\* The (abi, abishort) pairs, in the order the code walks them.
AbiPairs == <<
    [abi |-> "armeabi-v7a", abishort |-> "arm"],
    [abi |-> "arm64-v8a", abishort |-> "arm64"],
    [abi |-> "x86", abishort |-> "x86"],
    [abi |-> "x86_64", abishort |-> "x86-64"] >>

libname == "libmain"
libext == ".so"

\* dstname = f'{libname}_{abishort}{libext}'
dstname_of(abishort) == libname \o "_" \o abishort \o libext

\* Content of <src>/<abi>/libmain.so and of a tar -zcf archive of one file.
LibContent(abi) == "lib:" \o abi
TgzContent(name, content) == "tgz(" \o name \o "=" \o content \o ")"

\* A directory's entries are <<name, content>> pairs, one per name.
Put(entries, name, content) ==
    {e \in entries : e[1] # name} \cup {<<name, content>>}

Remove(entries, name) == {e \in entries : e[1] # name}

Names(entries) == {e[1] : e \in entries}

ContentOf(entries, name) == (CHOOSE e \in entries : e[1] = name)[2]


\* The loop body without its closing rm of the uncompressed copy.
archive_one_keeps_copy(st, p, failat) ==
    LET dstname == dstname_of(p.abishort) IN
    IF st.failed # "" \/ p.abi \notin src.libs THEN st
    ELSE IF st.calls + 1 = failat
    THEN [st EXCEPT !.failed = "cp", !.calls = @ + 1, !.trace = @ \o <<"cp">>,
                    !.printed = Append(@, dstname)]
    ELSE LET copied == Put(st.entries, dstname, LibContent(p.abi)) IN
    IF st.calls + 2 = failat
    THEN [st EXCEPT !.entries = copied, !.failed = "tar", !.calls = @ + 2,
                    !.trace = @ \o <<"cp", "tar">>,
                    !.printed = Append(@, dstname)]
    ELSE LET packed == Put(copied, dstname \o ".tgz",
                           TgzContent(dstname, ContentOf(copied, dstname))) IN
    IF st.calls + 3 = failat
    THEN [st EXCEPT !.entries = packed, !.failed = "rm", !.calls = @ + 3,
                    !.trace = @ \o <<"cp", "tar", "rm">>,
                    !.printed = Append(@, dstname)]
    ELSE [st EXCEPT !.entries = packed, !.calls = @ + 3,
                    !.trace = @ \o <<"cp", "tar", "rm">>,
                    !.printed = Append(@, dstname)]

\* One pass of the loop body for pair p, from loop state st; `failat` is the
\* number of the subprocess call that exits non-zero (0: none does).
archive_one(st, p, failat) ==
    LET dstname == dstname_of(p.abishort) IN
    IF st.failed # "" \/ p.abi \notin src.libs THEN st
    ELSE IF st.calls + 1 = failat
    THEN [st EXCEPT !.failed = "cp", !.calls = @ + 1, !.trace = @ \o <<"cp">>,
                    !.printed = Append(@, dstname)]
    ELSE LET copied == Put(st.entries, dstname, LibContent(p.abi)) IN
    IF st.calls + 2 = failat
    THEN [st EXCEPT !.entries = copied, !.failed = "tar", !.calls = @ + 2,
                    !.trace = @ \o <<"cp", "tar">>,
                    !.printed = Append(@, dstname)]
    ELSE LET packed == Put(copied, dstname \o ".tgz",
                           TgzContent(dstname, ContentOf(copied, dstname))) IN
    IF st.calls + 3 = failat
    THEN [st EXCEPT !.entries = packed, !.failed = "rm", !.calls = @ + 3,
                    !.trace = @ \o <<"cp", "tar", "rm">>,
                    !.printed = Append(@, dstname)]
    ELSE [st EXCEPT !.entries = Remove(packed, dstname), !.calls = @ + 3,
                    !.trace = @ \o <<"cp", "tar", "rm">>,
                    !.printed = Append(@, dstname)]

\* The for loop over the pairs i..4.
RECURSIVE archive_loop(_, _, _)
archive_loop(st, i, failat) ==
    IF i > Len(AbiPairs) THEN st
    ELSE archive_loop(archive_one(st, AbiPairs[i], failat), i + 1, failat)

\* Most subprocess calls one run can make: rm -rf, then cp, tar, rm per pair.
MaxCalls == 1 + 3 * Len(AbiPairs)

archivePre == [src |-> src, dst |-> dst]

\* if len(sys.argv) != 4
android_bad_args(argv) == Len(argv) # 4

EmptyDir == [exists |-> TRUE, entries |-> {}]

android_archive_unstripped_libs(argv, batch) ==
    /\ UNCHANGED <<assetVars, prefabVars, spinoffVars, wslVars, written>>
    /\ UNCHANGED src
    /\ LET done(result, msg, trace, out) ==
               last' = Run("android_archive_unstripped_libs", argv, batch, result,
                           msg, trace, out, archivePre)
       IN
       IF disallow_in_batch(batch)
       THEN done(CleanError, BatchMsg, <<>>, <<>>) /\ UNCHANGED dst
       ELSE IF android_bad_args(argv)
       THEN /\ done(CleanError, "Expected 2 args; src-dir and dst-dir", <<>>, <<>>)
            /\ UNCHANGED dst
       ELSE
       \* failat: which of the run's subprocess calls exits non-zero (0: none)
       \E failat \in 0..MaxCalls :
       \* if dst.exists(): rm -rf dst
       IF dst.exists /\ failat = 1
       THEN done(CalledProcessError, "rm", <<"rm">>, <<>>) /\ UNCHANGED dst
       ELSE
       LET t0 == IF dst.exists THEN <<"rm", "mkdir">> ELSE <<"mkdir">>
           n0 == IF dst.exists THEN 1 ELSE 0
       IN
       \* dst.mkdir(parents=True, exist_ok=True), then the source check
       IF ~src.exists
       THEN /\ dst' = EmptyDir
            /\ done(CleanError, "Source dir not found", t0, <<>>)
       ELSE
       LET st == archive_loop([entries |-> {}, failed |-> "", calls |-> n0,
                               trace |-> t0, printed |-> <<>>], 1, failat)
       IN /\ dst' = [exists |-> TRUE, entries |-> st.entries]
          /\ IF st.failed # ""
             THEN done(CalledProcessError, st.failed, st.trace, st.printed)
             ELSE done(OK, "", st.trace, st.printed)

----------------------------------------------------------------------------
(* spinoff_test and spinoff_check_submodule_parent                         *)

\* What a path names: nothing, a regular file, a directory, or a symbolic
\* link with what the link resolves to ("none": the link dangles).
Node(kind, target) == [kind |-> kind, target |-> target]

Nodes == {Node("none", "none"), Node("file", "file"), Node("dir", "dir"),
          Node("link", "none"), Node("link", "file"), Node("link", "dir")}

os_path_lexists(n) == n.kind # "none"

\* An existence test that does not follow symbolic links.
os_path_exists_nofollow(n) == os_path_lexists(n)

\* os.path.exists follows symbolic links: a dangling link does not exist.
os_path_exists(n) == n.target # "none"

os_path_islink(n) == n.kind = "link"

\* os.path.isdir follows symbolic links.
os_path_isdir(n) == n.target = "dir"

MsgNotSpinoff == "This does not appear to be a spinoff-enabled project."
MsgSpinoffParent == "This project is a spinoff parent; we require a dst."
MsgNoSubmodule == "This project is not using a submodule for its parent."

spinoffPre == [tools_spinoff |-> tools_spinoff, submodule |-> submodule]

\* batools.spinoff.spinoff_test(sys.argv[2:]): the spinoff subsystem's test
\* entry point, which ends well or with an error of its own.
spinoff_test(argv, batch) ==
    /\ UNCHANGED <<assetVars, prefabVars, archiveVars, spinoffVars, wslVars,
                   written>>
    /\ \E ok \in BOOLEAN :
          last' = Run("spinoff_test", argv, batch,
                      IF ok THEN OK ELSE CleanError,
                      IF ok THEN "" ELSE "spinoff",
                      <<"argv", "spinoff_test">>, <<>>, spinoffPre)

spinoff_check_submodule_parent(argv, batch) ==
    /\ UNCHANGED <<assetVars, prefabVars, archiveVars, spinoffVars, wslVars,
                   written>>
    /\ LET done(result, msg) ==
               last' = Run("spinoff_check_submodule_parent", argv, batch,
                           result, msg, <<>>, <<>>, spinoffPre)
       IN
       IF disallow_in_batch(batch) THEN done(CleanError, BatchMsg)
       ELSE IF ~os_path_exists(tools_spinoff) THEN done(CleanError, MsgNotSpinoff)
       ELSE IF ~os_path_islink(tools_spinoff)
       THEN done(CleanError, MsgSpinoffParent)
       ELSE IF ~os_path_isdir(submodule) THEN done(CleanError, MsgNoSubmodule)
       ELSE done(OK, "")

----------------------------------------------------------------------------
(* wsl_build_check_win_drive and wsl_path_to_win                           *)

BS == "\\"

\* Arguments of wsl_path_to_win.
A_create == <<"-", "-", "c", "r", "e", "a", "t", "e">>
A_escape == <<"-", "-", "e", "s", "c", "a", "p", "e">>
P_m == <<"/", "m">>
P_m_slash == <<"/", "m", "/">>
P_h == <<"/", "h">>

\* Windows paths the wslpath helper prints.
W_m == <<"C", ":", BS, "m">>
W_m_slash == <<"C", ":", BS, "m", BS>>
W_h == <<BS, BS, "w", "s", "l", "$", BS, "U", BS, "h">>

\* The literal '\\\\wsl$' of the drive check.
WslPrefix == <<BS, BS, "w", "s", "l", "$">>

Sentinel == <<"wsl_to_escaped_win_path_error_occurred">>

Unset == "<unset>"

\* str.strip() of a helper's output line: here, dropping the line end.
strip(s) ==
    IF Len(s) > 0 /\ s[Len(s)] = "\n" THEN SubSeq(s, 1, Len(s) - 1) ELSE s

endswith(s, c) == Len(s) > 0 /\ s[Len(s)] = c

startswith(s, p) == IsPrefix(p, s)

\* out.replace('\\', '\\\\')
RECURSIVE escape_backslashes(_)
escape_backslashes(s) ==
    IF s = <<>> THEN <<>>
    ELSE (IF s[1] = BS THEN <<BS, BS>> ELSE <<s[1]>>)
            \o escape_backslashes(Tail(s))

\* The path a string names: a trailing slash does not change it.
Norm(p) == IF Len(p) > 1 /\ endswith(p, Slash) THEN Front(p) ELSE p

\* os.path.exists(p), given what each path is ("none", "file" or "dir"): a
\* path spelled with a trailing slash exists only as a directory.
wsl_path_exists(fs, p) ==
    IF endswith(p, Slash) THEN fs[Norm(p)] = "dir" ELSE fs[Norm(p)] # "none"

\* What `wslpath -w -a p` can do: exit non-zero (it does for a path that
\* does not exist, and cannot be started when the helper is not installed),
\* or print the Windows path and a line end; for a directory spelled with a
\* trailing slash the helper may or may not keep a trailing backslash; the
\* bytes it prints may fail to decode.
HelperFail == [rc |-> 1, decodes |-> TRUE, stdout |-> <<>>]

HelperPrints(w) == [rc |-> 0, decodes |-> TRUE, stdout |-> w \o <<"\n">>]

Translations(p) ==
    IF Norm(p) = P_m
    THEN (IF endswith(p, Slash) THEN {W_m, W_m_slash} ELSE {W_m})
    ELSE {W_h}

WslpathOutcomes(fs, p) ==
    IF ~has_wslpath \/ ~wsl_path_exists(fs, p) THEN {HelperFail}
    ELSE {HelperFail}
         \cup {HelperPrints(w) : w \in Translations(p)}
         \cup {[rc |-> 0, decodes |-> FALSE, stdout |-> <<>>]}

\* The argument loop of wsl_path_to_win from argument i on.
RECURSIVE parse_args(_, _, _)
parse_args(argv, i, st) ==
    IF i > Len(argv) \/ st.err # "" THEN st
    ELSE IF argv[i] = A_create
    THEN parse_args(argv, i + 1, [st EXCEPT !.create = TRUE])
    ELSE IF argv[i] = A_escape
    THEN parse_args(argv, i + 1, [st EXCEPT !.escape = TRUE])
    ELSE IF st.has_path
    THEN [st EXCEPT !.err = "More than one path provided."]
    ELSE parse_args(argv, i + 1,
                    [st EXCEPT !.has_path = TRUE, !.wsl_path = argv[i]])

parsed_args(argv) ==
    IF Len(argv) < 3
    THEN [create |-> FALSE, escape |-> FALSE, has_path |-> FALSE,
          wsl_path |-> <<>>, err |-> "Expected at least 1 path arg."]
    ELSE LET st == parse_args(argv, 3,
                       [create |-> FALSE, escape |-> FALSE,
                        has_path |-> FALSE, wsl_path |-> <<>>, err |-> ""])
         IN IF st.err = "" /\ ~st.has_path
            THEN [st EXCEPT !.err = "No path provided."]
            ELSE st

\* The lines after the try block: strip, match a trailing slash, escape.
format_out(wsl_path, escape, stdout) ==
    LET out0 == strip(stdout)
        out1 == IF endswith(wsl_path, Slash) /\ ~endswith(out0, BS)
                THEN out0 \o <<BS>> ELSE out0
    IN IF escape THEN escape_backslashes(out1) ELSE out1

Printed(text, end) == [text |-> text, end |-> end]

\* The sentinel printed with print's default line end.
print_sentinel_with_newline == Printed(Sentinel, "\n")

\* print('wsl_to_escaped_win_path_error_occurred', end='')
print_sentinel == Printed(Sentinel, "")

wslPre(helper, made) ==
    [wsl_exists |-> wsl_exists, has_wslpath |-> has_wslpath,
     environ |-> environ, cwd_win |-> cwd_win, helper |-> helper,
     makedirs_ok |-> made]

wsl_path_to_win(argv, batch) ==
    /\ UNCHANGED <<assetVars, prefabVars, archiveVars, spinoffVars, written>>
    /\ UNCHANGED <<has_wslpath, environ, cwd_win>>
    /\ LET done(result, msg, trace, out, helper, made) ==
               last' = Run("wsl_path_to_win", argv, batch, result, msg, trace,
                           out, wslPre(helper, made))
           \* except Exception: logging.exception(...); print(sentinel, end='')
           caught(msg, trace, helper, made) ==
               done(OK, msg, trace \o <<"log">>, <<print_sentinel>>, helper,
                    made)
           a == parsed_args(argv)
       IN
       \* the guard is called before the try block
       IF disallow_in_batch(batch)
       THEN /\ done(CleanError, BatchMsg, <<>>, <<>>, HelperFail, TRUE)
            /\ UNCHANGED wsl_exists
       ELSE IF a.err # ""
       THEN caught(a.err, <<>>, HelperFail, TRUE) /\ UNCHANGED wsl_exists
       ELSE
       \* if create: os.makedirs(wsl_path, exist_ok=True), which fails on a
       \* regular file and may fail for want of permission
       \E made \in (IF ~a.create THEN {TRUE}
                    ELSE IF wsl_exists[Norm(a.wsl_path)] = "file" THEN {FALSE}
                    ELSE IF wsl_exists[Norm(a.wsl_path)] = "dir" THEN {TRUE}
                    ELSE BOOLEAN) :
       LET fs1 == IF a.create /\ made
                  THEN [wsl_exists EXCEPT ![Norm(a.wsl_path)] = "dir"]
                  ELSE wsl_exists
           t1 == IF a.create THEN <<"makedirs">> ELSE <<>>
       IN
       /\ wsl_exists' = fs1
       /\ IF ~made THEN caught("makedirs", t1, HelperFail, FALSE)
          ELSE IF ~wsl_path_exists(fs1, a.wsl_path)
          THEN caught("Path does not exist.", t1, HelperFail, TRUE)
          ELSE
          \E r \in WslpathOutcomes(fs1, a.wsl_path) :
             IF r.rc # 0
             THEN caught("wslpath", t1 \o <<"wslpath">>, r, TRUE)
             ELSE IF ~r.decodes
             THEN done(UnicodeDecodeError, "", t1 \o <<"wslpath">>, <<>>, r,
                       TRUE)
             ELSE done(OK, "", t1 \o <<"wslpath">>,
                       <<Printed(format_out(a.wsl_path, a.escape, r.stdout),
                                 "")>>, r, TRUE)

\* The override compared with "true" instead of "1".
env_ignore_true(value) == value = "true"

\* os.environ.get('WSL_BUILD_CHECK_WIN_DRIVE_IGNORE') == '1'
env_ignore(value) == value = "1"

\* subprocess.run(['which', 'wslpath'], ...).returncode, consulted before the
\* environment variable.
which_wslpath_rc(found) == IF found THEN 0 ELSE 1

MsgNoWslpath == "wslpath not found; you must run this from a WSL environment"
MsgLinuxFs == "ERROR: This project appears to live on the Linux filesystem."

wsl_build_check_win_drive(argv, batch) ==
    /\ UNCHANGED <<assetVars, prefabVars, archiveVars, spinoffVars, wslVars,
                   written>>
    /\ LET done(result, msg, trace, helper) ==
               last' = Run("wsl_build_check_win_drive", argv, batch, result,
                           msg, trace, <<>>, wslPre(helper, TRUE))
       IN
       IF disallow_in_batch(batch)
       THEN done(CleanError, BatchMsg, <<>>, HelperFail)
       ELSE IF which_wslpath_rc(has_wslpath) # 0
       THEN done(CleanError, MsgNoWslpath, <<"which">>, HelperFail)
       ELSE IF env_ignore(environ)
       THEN done(OK, "", <<"which">>, HelperFail)
       ELSE
       \* wslpath -w -a os.getcwd(), check=True; .stdout.decode().strip()
       \E r \in {HelperFail, HelperPrints(cwd_win),
                 [rc |-> 0, decodes |-> FALSE, stdout |-> <<>>]} :
          IF r.rc # 0
          THEN done(CalledProcessError, "wslpath", <<"which", "wslpath">>, r)
          ELSE IF ~r.decodes
          THEN done(UnicodeDecodeError, "", <<"which", "wslpath">>, r)
          ELSE IF ~startswith(strip(r.stdout), WslPrefix)
          THEN done(OK, "", <<"which", "wslpath">>, r)
          ELSE done(CleanError, MsgLinuxFs, <<"which", "wslpath">>, r)

----------------------------------------------------------------------------
(* The generator, CI and tooling commands.                                 *)

genPre == [written |-> written]

\* Feature sets FeatureSet.get_all_for_project may return (an external
\* registry): name of the binary module, and whether there is one.
FeatureSets == {
    [name_python_binary_module |-> "_babase", has_python_binary_module |-> TRUE],
    [name_python_binary_module |-> "_baplus", has_python_binary_module |-> TRUE],
    [name_python_binary_module |-> "_batools", has_python_binary_module |-> FALSE] }

\* sorted(...) over the module names above.
NameOrder == <<"_babase", "_baplus", "_batools">>

sorted(names) ==
    LET keep(n) == n \in names IN SelectSeq(NameOrder, keep)

initname(mname) ==
    IF mname = "_baplus" THEN "DoPyInit_" \o mname ELSE "PyInit_" \o mname

\* The generated header: its extern block, its register block and whether
\* the PyInit__baplus forwarder is there.
monolithic_header(featuresets) ==
    LET pymodulenames ==
            sorted({f.name_python_binary_module :
                      f \in {g \in featuresets : g.has_python_binary_module}})
    IN [kind |-> "python_modules_monolithic.h",
        externs |-> [i \in 1..Len(pymodulenames) |-> initname(pymodulenames[i])],
        registers |-> [i \in 1..Len(pymodulenames) |->
                          <<pymodulenames[i], initname(pymodulenames[i])>>],
        init_plus |-> "_baplus" \in ToSet(pymodulenames)]

init_module ==
    [kind |-> "__init__.py", externs |-> <<>>, registers |-> <<>>,
     init_plus |-> FALSE]

\* if len(sys.argv) != 3
gen_bad_args(argv) == Len(argv) # 3

gen_monolithic_register_modules(argv, batch) ==
    /\ UNCHANGED <<assetVars, prefabVars, archiveVars, spinoffVars, wslVars>>
    /\ LET done(result, msg, trace) ==
               last' = Run("gen_monolithic_register_modules", argv, batch,
                           result, msg, trace, <<>>, genPre)
       IN
       IF disallow_in_batch(batch)
       THEN done(CleanError, BatchMsg, <<>>) /\ UNCHANGED written
       ELSE IF gen_bad_args(argv)
       THEN done(CleanError, "Expected 1 arg.", <<>>) /\ UNCHANGED written
       ELSE \E featuresets \in SUBSET FeatureSets :
            /\ written' = Put(written, argv[3], monolithic_header(featuresets))
            /\ done(OK, "", <<"FeatureSet.get_all_for_project", "makedirs",
                              "write">>)

gen_python_init_module(argv, batch) ==
    /\ UNCHANGED <<assetVars, prefabVars, archiveVars, spinoffVars, wslVars>>
    /\ LET done(result, msg, trace, out) ==
               last' = Run("gen_python_init_module", argv, batch, result, msg,
                           trace, out, genPre)
       IN
       IF disallow_in_batch(batch)
       THEN done(CleanError, BatchMsg, <<>>, <<>>) /\ UNCHANGED written
       ELSE IF gen_bad_args(argv)
       THEN /\ done(CleanError, "Expected an outfile arg.", <<>>, <<>>)
            /\ UNCHANGED written
       ELSE /\ written' = Put(written, argv[3], init_module)
            /\ done(OK, "", <<"makedirs", "write">>,
                    <<Printed("Meta-building " \o argv[3], "\n")>>)

\* int(sys.argv[3]) and int(sys.argv[4]) succeed on these.
IntLiterals == {"1", "7"}

\* if len(sys.argv) != 7
py_examine_bad_args(argv) == Len(argv) # 7

py_examine(argv, batch) ==
    /\ UNCHANGED <<assetVars, prefabVars, archiveVars, spinoffVars, wslVars,
                   written>>
    /\ LET done(result, msg, trace, out) ==
               last' = Run("py_examine", argv, batch, result, msg, trace, out,
                           genPre)
       IN
       IF disallow_in_batch(batch) THEN done(CleanError, BatchMsg, <<>>, <<>>)
       ELSE IF py_examine_bad_args(argv)
       THEN done(SystemExit255, "", <<>>,
                 <<Printed("ERROR: expected 7 args", "\n")>>)
       ELSE IF argv[4] \notin IntLiterals \/ argv[5] \notin IntLiterals
       THEN done("ValueError", "", <<>>, <<>>)
       ELSE \E ok \in BOOLEAN :
               done(IF ok THEN OK ELSE "Exception",
                    IF ok THEN "" ELSE "efrotools.py_examine",
                    <<"chdir", "sys.path", "efrotools.py_examine">>, <<>>)

\* Targets a meta manifest may list: where the path starts and which
\* generated-code segment it holds.
MetaTargets == {
    [path |-> "src/ballistica/base/mgen/a.h", under |-> "src/ballistica/",
     segment |-> "/mgen/"],
    [path |-> "src/assets/ba_data/python/ba/_mgen/b.py",
     under |-> "src/assets/ba_data/python/", segment |-> "/_mgen/"],
    [path |-> "src/ballistica/base/c.cc", under |-> "src/ballistica/",
     segment |-> ""] }

lib_dbg_win32 == "build/prefab/lib/windows/Debug_Win32"

needed_targets(meta_public, meta_private) ==
    {lib_dbg_win32 \o "/BallisticaKitGenericPlus.lib",
     lib_dbg_win32 \o "/BallisticaKitGenericPlus.pdb",
     "ballisticakit-windows/Generic/BallisticaKit.ico"}
    \cup {t.path : t \in {u \in meta_public \cup meta_private :
             \/ (u.under = "src/ballistica/" /\ u.segment = "/mgen/")
             \/ (u.under = "src/assets/ba_data/python/"
                 /\ u.segment = "/_mgen/")}}

win_ci_install_prereqs(argv, batch) ==
    /\ UNCHANGED <<assetVars, prefabVars, archiveVars, spinoffVars, wslVars,
                   written>>
    /\ LET done(result, msg, trace, out) ==
               last' = Run("win_ci_install_prereqs", argv, batch, result, msg,
                           trace, out, genPre)
       IN
       IF disallow_in_batch(batch) THEN done(CleanError, BatchMsg, <<>>, {})
       ELSE \E meta_public \in SUBSET MetaTargets,
               meta_private \in SUBSET MetaTargets, ok \in BOOLEAN :
            LET needed == needed_targets(meta_public, meta_private)
                fetched == IF ok THEN Cardinality(needed) ELSE 1
            IN done(IF ok THEN OK ELSE "Exception",
                    IF ok THEN "" ELSE "get_target",
                    <<"open", "open">> \o [i \in 1..fetched |-> "get_target"],
                    IF ok THEN needed ELSE {})

win_ci_binary_build(argv, batch) ==
    /\ UNCHANGED <<assetVars, prefabVars, archiveVars, spinoffVars, wslVars,
                   written>>
    /\ LET done(result, msg, trace) ==
               last' = Run("win_ci_binary_build", argv, batch, result, msg,
                           trace, <<>>, genPre)
       IN
       IF disallow_in_batch(batch) THEN done(CleanError, BatchMsg, <<>>)
       ELSE \E ok \in BOOLEAN :
               done(IF ok THEN OK ELSE CalledProcessError,
                    IF ok THEN "" ELSE "MSBuild", <<"MSBuild">>)

tests_warm_start(argv, batch) ==
    /\ UNCHANGED <<assetVars, prefabVars, archiveVars, spinoffVars, wslVars,
                   written>>
    /\ LET done(result, msg, trace) ==
               last' = Run("tests_warm_start", argv, batch, result, msg, trace,
                           <<>>, genPre)
       IN
       IF disallow_in_batch(batch) THEN done(CleanError, BatchMsg, <<>>)
       ELSE \E test_runs_disabled \in BOOLEAN :
               IF test_runs_disabled THEN done(OK, "", <<>>)
               ELSE \E ok \in BOOLEAN :
                       done(IF ok THEN OK ELSE "Exception",
                            IF ok THEN "" ELSE "acquire_binary",
                            <<"acquire_binary_for_python_command">>)

----------------------------------------------------------------------------
(* The asset-pruning specification: any project tree, any two manifests.   *)

F_ax == <<S_build, S_assets, S_a, S_x>>   \* build/assets/a/x
F_by == <<S_build, S_assets, S_b, S_y>>   \* build/assets/b/y
F_x == <<S_build, S_assets, S_x>>         \* build/assets/x
F_aby == <<S_build, S_assets, S_a, S_b, S_y>> \* build/assets/a/b/y
F_out == <<S_build, S_x>>                 \* build/x, outside build/assets

AssetFiles == {F_ax, F_by, F_x, F_aby, F_out}

\* Relative paths a manifest may list.
M_ax == S_a \o <<Slash>> \o S_x
M_by == S_b \o <<Slash>> \o S_y
M_x == S_x

ManifestEntries == {M_ax, M_by, M_x}

ManifestLists ==
    UNION {[1..n -> ManifestEntries] : n \in 0..MaxManifestLen}

\* Every proper ancestor directory of a path.
Ancestors(f) == {SubSeq(f, 1, n) : n \in 1..(Len(f) - 1)}

\* Directories that may exist without holding any file.
SpareDirs == {<<S_build>>, AssetsDir, <<S_build, S_assets, S_b>>}

NoRuns == last = NoRun /\ written = {} /\ nruns = 0

InitAssetsWide ==
    /\ files \in SUBSET AssetFiles
    /\ \E spare \in SUBSET SpareDirs :
          dirs = UNION {Ancestors(f) : f \in files}
                   \cup spare \cup UNION {Ancestors(d) : d \in spare}
    /\ manifest_public \in ManifestLists
    /\ manifest_private \in ManifestLists

\* The tree and manifest of the pruning example: a/x.png known, b/y.png not.
InitAssetsOne ==
    /\ files = {F_ax, F_by}
    /\ dirs = Ancestors(F_ax) \cup Ancestors(F_by)
    /\ manifest_public = <<M_ax>>
    /\ manifest_private = <<>>

InitPrefabWide ==
    /\ now = 0
    /\ \E a, b \in {NoFile} \cup {File(t, "old") : t \in 0..MaxTime} :
          prefab = [p \in TargetPaths |->
                      IF p = target_of("standard", "debug") THEN a
                      ELSE IF p = target_of("server", "debug") THEN b
                      ELSE NoFile]
    /\ lib \in {NoFile} \cup {File(t, "stale") : t \in 0..MaxTime}
    /\ libdir \in BOOLEAN
    /\ lib.exists => libdir

InitPrefabOne ==
    /\ now = 0
    /\ prefab = [p \in TargetPaths |-> NoFile]
    /\ lib = NoFile
    /\ libdir = FALSE

AbiNames == {AbiPairs[i].abi : i \in 1..Len(AbiPairs)}

\* Files a destination directory may hold before the call.
OldEntries == {<<"notes.txt", "old">>,
               <<"libmain_arm.so.tgz", "old">>,
               <<"libmain_x86.so", "old">>}

InitArchiveWide ==
    /\ src \in {[exists |-> FALSE, libs |-> {}]}
                \cup {[exists |-> TRUE, libs |-> l] : l \in SUBSET AbiNames}
    /\ dst \in {[exists |-> FALSE, entries |-> {}]}
                \cup {[exists |-> TRUE, entries |-> e] : e \in SUBSET OldEntries}

InitArchiveOne ==
    /\ src = [exists |-> TRUE, libs |-> {"arm64-v8a"}]
    /\ dst = [exists |-> FALSE, entries |-> {}]

InitSpinoffOne ==
    tools_spinoff = Node("link", "file") /\ submodule = Node("dir", "dir")

WslPaths == {P_m, P_h}

W_cwd == <<"C", ":", BS, "p">>
W_cwd_linux == <<BS, BS, "w", "s", "l", "$", BS, "U", BS, "p">>

InitWslWide ==
    /\ has_wslpath \in BOOLEAN
    /\ environ \in {Unset, "0", "1"}
    /\ cwd_win \in {W_cwd, W_cwd_linux}
    /\ wsl_exists \in [WslPaths -> {"none", "file", "dir"}]

InitWslOne ==
    /\ has_wslpath = TRUE
    /\ environ = Unset
    /\ cwd_win = W_cwd
    /\ wsl_exists = [p \in WslPaths |-> IF p = P_m THEN "dir" ELSE "none"]

InitSpinoffWide == tools_spinoff \in Nodes /\ submodule \in Nodes

Argvs0 == {<<"pcommand", "clean_orphaned_assets">>,
           <<"pcommand", "clean_orphaned_assets", "extra">>}

InitAssets ==
    /\ InitAssetsWide /\ InitPrefabOne /\ InitArchiveOne
    /\ InitSpinoffOne /\ InitWslOne /\ NoRuns

NextAssets ==
    /\ UNCHANGED nruns
    /\ \E argv \in Argvs0, batch \in BOOLEAN :
          clean_orphaned_assets(argv, batch)

SpecAssets == InitAssets /\ [][NextAssets]_vars

----------------------------------------------------------------------------
(* The library-sync specification: any age of the target and of the copy.  *)

PrefabArgvs ==
    {<<"pcommand", "update_cmake_prefab_lib", b, m, BuildDir>> :
        b \in {"standard", "server"}, m \in {"debug"}}
    \cup {<<"pcommand", "update_cmake_prefab_lib", "bogus", "debug", BuildDir>>,
          <<"pcommand", "update_cmake_prefab_lib", "server", "bogus", BuildDir>>,
          <<"pcommand", "update_cmake_prefab_lib", "server", "debug">>,
          <<"pcommand", "update_cmake_prefab_lib", "server", "debug", BuildDir,
            "extra">>}

InitPrefab ==
    /\ InitAssetsOne /\ InitPrefabWide /\ InitArchiveOne
    /\ InitSpinoffOne /\ InitWslOne /\ NoRuns

NextPrefab ==
    /\ UNCHANGED nruns
    /\ \E argv \in PrefabArgvs, batch \in BOOLEAN :
          update_cmake_prefab_lib(argv, batch)

SpecPrefab == InitPrefab /\ [][NextPrefab]_vars

----------------------------------------------------------------------------
(* The archive specification: any source tree, any old destination.        *)

ArchiveArgvs ==
    {<<"pcommand", "android_archive_unstripped_libs", SrcPath, DstPath>>,
     <<"pcommand", "android_archive_unstripped_libs", SrcPath>>,
     <<"pcommand", "android_archive_unstripped_libs", SrcPath, DstPath, "extra">>}

InitArchive ==
    /\ InitAssetsOne /\ InitPrefabOne /\ InitArchiveWide
    /\ InitSpinoffOne /\ InitWslOne /\ NoRuns

NextArchive ==
    /\ UNCHANGED nruns
    /\ \E argv \in ArchiveArgvs, batch \in BOOLEAN :
          android_archive_unstripped_libs(argv, batch)

SpecArchive == InitArchive /\ [][NextArchive]_vars

----------------------------------------------------------------------------
(* The spinoff specification: whatever tools/spinoff and the submodule are. *)

Argv(cmd, args) == <<"pcommand", cmd>> \o args

NoArgs(cmd) == {Argv(cmd, <<>>), Argv(cmd, <<"extra">>)}

InitSpinoff ==
    /\ InitAssetsOne /\ InitPrefabOne /\ InitArchiveOne
    /\ InitSpinoffWide /\ InitWslOne /\ NoRuns

NextSpinoff ==
    /\ UNCHANGED nruns
    /\ \/ \E argv \in NoArgs("spinoff_check_submodule_parent"),
             batch \in BOOLEAN :
             spinoff_check_submodule_parent(argv, batch)
       \/ \E argv \in NoArgs("spinoff_test"), batch \in BOOLEAN :
             spinoff_test(argv, batch)

SpecSpinoff == InitSpinoff /\ [][NextSpinoff]_vars

----------------------------------------------------------------------------
(* The WSL specification: any helper, environment and paths.               *)

WslArgs == {<<>>, <<P_m>>, <<P_m_slash>>, <<P_h>>, <<A_create>>,
            <<A_create, P_m_slash>>, <<P_h, A_create>>, <<P_m, A_escape>>,
            <<A_escape, P_m_slash>>, <<A_create, P_h, A_escape>>,
            <<P_m, P_h>>, <<P_m, A_escape, P_m>>}

WslArgvs == {Argv("wsl_path_to_win", args) : args \in WslArgs}

InitWsl ==
    /\ InitAssetsOne /\ InitPrefabOne /\ InitArchiveOne
    /\ InitSpinoffOne /\ InitWslWide /\ NoRuns

NextWsl ==
    /\ UNCHANGED nruns
    /\ \/ \E argv \in WslArgvs, batch \in BOOLEAN :
             wsl_path_to_win(argv, batch)
       \/ \E argv \in NoArgs("wsl_build_check_win_drive"),
             batch \in BOOLEAN :
             wsl_build_check_win_drive(argv, batch)

SpecWsl == InitWsl /\ [][NextWsl]_vars

----------------------------------------------------------------------------
(* The dispatcher specification: every pcommand, with any argument count   *)
(* and in or out of batch mode, MaxRuns invocations in a row.              *)

OutPath == "build/gen/out"

OneArg(cmd) ==
    {Argv(cmd, <<>>), Argv(cmd, <<OutPath>>), Argv(cmd, <<OutPath, "extra">>)}

ExamineArgvs ==
    {Argv("py_examine", <<"f.py", "1", "7", "", "type">>),
     Argv("py_examine", <<"f.py", "x", "7", "", "type">>),
     Argv("py_examine", <<"f.py", "1", "7", "">>),
     Argv("py_examine", <<"f.py", "1", "7", "", "type", "extra">>)}

Init ==
    /\ InitAssetsOne /\ InitPrefabOne /\ InitArchiveOne
    /\ InitSpinoffOne /\ InitWslOne /\ NoRuns

Next ==
    /\ nruns < MaxRuns
    /\ nruns' = nruns + 1
    /\ \E batch \in BOOLEAN :
       \/ \E argv \in OneArg("gen_monolithic_register_modules") :
             gen_monolithic_register_modules(argv, batch)
       \/ \E argv \in ExamineArgvs : py_examine(argv, batch)
       \/ \E argv \in Argvs0 : clean_orphaned_assets(argv, batch)
       \/ \E argv \in NoArgs("win_ci_install_prereqs") :
             win_ci_install_prereqs(argv, batch)
       \/ \E argv \in NoArgs("win_ci_binary_build") :
             win_ci_binary_build(argv, batch)
       \/ \E argv \in PrefabArgvs : update_cmake_prefab_lib(argv, batch)
       \/ \E argv \in ArchiveArgvs :
             android_archive_unstripped_libs(argv, batch)
       \/ \E argv \in NoArgs("spinoff_test") : spinoff_test(argv, batch)
       \/ \E argv \in NoArgs("spinoff_check_submodule_parent") :
             spinoff_check_submodule_parent(argv, batch)
       \/ \E argv \in OneArg("gen_python_init_module") :
             gen_python_init_module(argv, batch)
       \/ \E argv \in NoArgs("tests_warm_start") :
             tests_warm_start(argv, batch)
       \/ \E argv \in NoArgs("wsl_build_check_win_drive") :
             wsl_build_check_win_drive(argv, batch)
       \/ \E argv \in WslArgvs : wsl_path_to_win(argv, batch)

Spec == Init /\ [][Next]_vars

----------------------------------------------------------------------------
(* Properties of clean_orphaned_assets (SpecAssets).                       *)

Ran(cmd) == last.cmd = cmd /\ ~last.batch

\* A file's path relative to build/assets, as the manifests spell it: the
\* components below build/assets joined by "/".
RECURSIVE JoinSlash(_)
JoinSlash(cs) ==
    IF Len(cs) = 1 THEN cs[1] ELSE cs[1] \o <<Slash>> \o JoinSlash(Tail(cs))

UnderAssets(f) == Len(f) > Len(AssetsDir) /\ IsPrefix(AssetsDir, f)

RelativePath(f) == JoinSlash(SubSeq(f, Len(AssetsDir) + 1, Len(f)))

Known == ToSet(manifest_public) \cup ToSet(manifest_private)

\* C1: when clean_orphaned_assets runs twice in a row with nothing changed
\* in between, the second run deletes no file and no directory and ends
\* without any error, also when the first run emptied build/assets.
C1_SecondRunIsNoOp ==
    (/\ Ran("clean_orphaned_assets")
     /\ last.prev.cmd = "clean_orphaned_assets"
     /\ ~last.prev.batch
     /\ last.prev.result = OK)
    => /\ last.result = OK
       /\ files = last.pre.files
       /\ dirs = last.pre.dirs

\* C2: after a run of clean_orphaned_assets the files are exactly the files
\* there before, less those under build/assets whose path relative to
\* build/assets is in neither manifest; nothing outside build/assets goes.
C2_DeletesExactlyOrphans ==
    Ran("clean_orphaned_assets")
    => files = {f \in last.pre.files :
                   UnderAssets(f) => RelativePath(f) \in Known}

\* A run that kept a known asset, deleted an orphan and left build/x alone.
C2_Witness ==
    /\ Ran("clean_orphaned_assets")
    /\ \E f \in files : UnderAssets(f) /\ Len(f) > Len(AssetsDir) + 1
    /\ \E g \in last.pre.files \ files : UnderAssets(g)
    /\ F_out \in files

----------------------------------------------------------------------------
(* Properties of update_cmake_prefab_lib (SpecPrefab).                     *)

MakeSucceeded ==
    /\ Ran("update_cmake_prefab_lib")
    /\ last.trace # <<>>
    /\ ~(last.result = CalledProcessError /\ last.msg = "make")

\* The target the last run built.
BuiltTarget == prefab[target_of(last.argv[3], last.argv[4])]

DestinationIsOlder ==
    ~last.pre.lib.exists \/ last.pre.lib.mtime < BuiltTarget.mtime

\* C3: after a successful make, update_cmake_prefab_lib copies the built
\* library to <builddir>/prefablib/libballisticaplus.a if and only if that
\* file does not exist or is strictly older than the built target; when it
\* exists and is as new or newer, nothing is copied and it stays as it was.
C3_CopiesIffDestinationOlder ==
    MakeSucceeded
    => /\ ("cp" \in ToSet(last.trace)) <=> DestinationIsOlder
       /\ (DestinationIsOlder /\ last.result = OK)
            => (lib.exists /\ lib.content = BuiltTarget.content /\ libdir)
       /\ ~DestinationIsOlder
            => (lib = last.pre.lib /\ last.result = OK)

\* A run that found the destination exactly as old as the built target and
\* left it alone.
C3_Witness ==
    /\ MakeSucceeded
    /\ last.pre.lib.exists
    /\ last.pre.lib.mtime = BuiltTarget.mtime
    /\ lib = last.pre.lib
    /\ lib.content # BuiltTarget.content

----------------------------------------------------------------------------
(* Properties of android_archive_unstripped_libs (SpecArchive).            *)

\* The short name of each ABI directory, as the archive names spell it.
ShortName(abi) ==
    CASE abi = "armeabi-v7a" -> "arm"
      [] abi = "arm64-v8a" -> "arm64"
      [] abi = "x86" -> "x86"
      [] abi = "x86_64" -> "x86-64"

ArchiveName(abi) == "libmain_" \o ShortName(abi) \o ".so.tgz"

\* C4: with an existing source directory, a run of
\* android_archive_unstripped_libs that completes leaves in the destination
\* exactly one libmain_<abishort>.so.tgz per ABI that has libmain.so, each
\* made from that library, and nothing else: no uncompressed copy, nothing
\* for an absent ABI, nothing that was there before.
C4_ExactlyOneArchivePerAbi ==
    (Ran("android_archive_unstripped_libs") /\ last.result = OK)
    => /\ last.pre.src.exists
       /\ dst.exists
       /\ Names(dst.entries) = {ArchiveName(abi) : abi \in last.pre.src.libs}
       /\ Cardinality(dst.entries) = Cardinality(last.pre.src.libs)
       /\ \A abi \in last.pre.src.libs :
             ContentOf(dst.entries, ArchiveName(abi))
               = TgzContent("libmain_" \o ShortName(abi) \o ".so", LibContent(abi))

\* A completed run over two ABIs and a destination that held a stale archive
\* and a stale uncompressed library.
C4_Witness ==
    /\ Ran("android_archive_unstripped_libs")
    /\ last.result = OK
    /\ last.pre.src.libs = {"armeabi-v7a", "x86"}
    /\ last.pre.dst.entries = OldEntries
    /\ Cardinality(dst.entries) = 2

\* C10: called with two arguments and a source directory that does not
\* exist, android_archive_unstripped_libs fails with the source-dir-not-found
\* error and leaves the destination as it was.
C10_MissingSourceLeavesDestination ==
    (/\ Ran("android_archive_unstripped_libs")
     /\ Len(last.argv) = 4
     /\ ~last.pre.src.exists)
    => /\ last.result = CleanError
       /\ last.msg = "Source dir not found"
       /\ dst = last.pre.dst

----------------------------------------------------------------------------
(* Properties of spinoff_check_submodule_parent (SpecSpinoff).             *)

Absent(n) == n.kind = "none"

IsSymlink(n) == n.kind = "link"

Dangling(n) == n.kind = "link" /\ n.target = "none"

\* A directory, reached directly or through a symbolic link.
IsDirectory(n) == n.target = "dir"

\* C7 as stated: spinoff_check_submodule_parent succeeds if and only if
\* tools/spinoff is present as a symbolic link and submodules/ballistica is a
\* directory; otherwise it fails with the error of the first failing check:
\* tools/spinoff absent, not a symbolic link, submodule not a directory.
C7_SucceedsIffSymlinkPresent ==
    Ran("spinoff_check_submodule_parent")
    => /\ (last.result = OK)
            <=> (IsSymlink(tools_spinoff) /\ IsDirectory(submodule))
       /\ last.result # OK
            => /\ last.result = CleanError
               /\ last.msg = (IF Absent(tools_spinoff) THEN MsgNotSpinoff
                              ELSE IF ~IsSymlink(tools_spinoff)
                              THEN MsgSpinoffParent
                              ELSE MsgNoSubmodule)

\* C7 amended: the command succeeds if and only if tools/spinoff is a
\* symbolic link whose target exists and submodules/ballistica is a
\* directory; otherwise it fails with the error of the first failing check:
\* tools/spinoff absent or a dangling link (not spinoff-enabled), not a
\* symbolic link (spinoff parent), submodule not a directory; the three
\* errors differ and nothing is changed.
C7_SucceedsIffLinkResolves ==
    Ran("spinoff_check_submodule_parent")
    => /\ (last.result = OK)
            <=> (/\ IsSymlink(tools_spinoff)
                 /\ ~Dangling(tools_spinoff)
                 /\ IsDirectory(submodule))
       /\ last.result # OK
            => /\ last.result = CleanError
               /\ last.msg = (IF Absent(tools_spinoff) \/ Dangling(tools_spinoff)
                              THEN MsgNotSpinoff
                              ELSE IF ~IsSymlink(tools_spinoff)
                              THEN MsgSpinoffParent
                              ELSE MsgNoSubmodule)
       /\ Cardinality({MsgNotSpinoff, MsgSpinoffParent, MsgNoSubmodule}) = 3
       /\ last.trace = <<>>
       /\ spinoffPre = last.pre

\* A dangling tools/spinoff link beside a submodule directory, reported as
\* "not spinoff-enabled".
C7_Witness ==
    /\ Ran("spinoff_check_submodule_parent")
    /\ Dangling(tools_spinoff)
    /\ IsDirectory(submodule)
    /\ last.msg = MsgNotSpinoff

----------------------------------------------------------------------------
(* Properties of the WSL commands (SpecWsl).                               *)

\* C6 as stated: wsl_build_check_win_drive succeeds whenever
\* WSL_BUILD_CHECK_WIN_DRIVE_IGNORE is '1', in every environment state.
C6_IgnoreAlwaysSucceeds ==
    (Ran("wsl_build_check_win_drive") /\ environ = "1") => last.result = OK

\* C6 amended: when the wslpath helper is installed and
\* WSL_BUILD_CHECK_WIN_DRIVE_IGNORE is '1', wsl_build_check_win_drive
\* succeeds whatever the working directory translates to, and does not
\* translate it; without the helper it fails even with the variable set.
C6_IgnoreSucceedsWithHelper ==
    (Ran("wsl_build_check_win_drive") /\ environ = "1")
    => IF has_wslpath
       THEN last.result = OK /\ "wslpath" \notin ToSet(last.trace)
       ELSE last.result = CleanError /\ last.msg = MsgNoWslpath

\* The check passing, by the override, for a project on the Linux filesystem.
C6_Witness ==
    /\ Ran("wsl_build_check_win_drive")
    /\ environ = "1"
    /\ has_wslpath
    /\ cwd_win = W_cwd_linux
    /\ last.result = OK

\* The arguments after the command name, and the paths among them.
ArgsOf(argv) == SubSeq(argv, 3, Len(argv))

PathArgs(argv) ==
    LET IsPath(a) == a \notin {A_create, A_escape}
    IN SelectSeq(ArgsOf(argv), IsPath)

\* Whether some step of the last wsl_path_to_win run failed: no path, more
\* than one, --create failing, the path missing after the optional --create,
\* or the helper exiting non-zero.
StepFailed ==
    LET paths == PathArgs(last.argv) IN
    \/ Len(paths) # 1
    \/ ~last.pre.makedirs_ok
    \/ ~wsl_path_exists(wsl_exists, paths[1])
    \/ last.pre.helper.rc # 0

\* A string with every doubled backslash made single.
RECURSIVE Halve(_)
Halve(t) ==
    IF t = <<>> THEN <<>>
    ELSE IF Len(t) >= 2 /\ t[1] = BS /\ t[2] = BS
    THEN <<BS>> \o Halve(SubSeq(t, 3, Len(t)))
    ELSE <<t[1]>> \o Halve(Tail(t))

BackslashCount(t) == Cardinality({i \in 1..Len(t) : t[i] = BS})

\* Whether text is the translation of the one path argument: the helper's
\* line without its line end, with a backslash added when the path ends in a
\* slash and the line does not end in one, and every backslash doubled under
\* --escape.
IsTranslation(text) ==
    LET path == PathArgs(last.argv)[1]
        line == Front(last.pre.helper.stdout)
        base == IF Last(path) = Slash /\ Last(line) # BS
                THEN line \o <<BS>> ELSE line
    IN IF A_escape \in ToSet(ArgsOf(last.argv))
       THEN Halve(text) = base /\ Len(text) = Len(base) + BackslashCount(base)
       ELSE text = base

OnePrint ==
    /\ last.result = OK
    /\ Len(last.out) = 1
    /\ last.out[1].end = ""
    /\ IF StepFailed THEN last.out[1].text = Sentinel
       ELSE last.out[1].text # Sentinel /\ IsTranslation(last.out[1].text)

----------------------------------------------------------------------------
(* Properties of every pcommand (Spec).                                    *)

\* How many arguments each command takes after its name.
ExpectedArgs(cmd) ==
    CASE cmd \in {"gen_monolithic_register_modules", "gen_python_init_module"}
            -> {1}
      [] cmd = "py_examine" -> {5}
      [] cmd = "update_cmake_prefab_lib" -> {3}
      [] cmd = "android_archive_unstripped_libs" -> {2}
      [] cmd = "wsl_path_to_win" -> {1, 2, 3}
      [] cmd = "spinoff_test" -> 0..Len(last.argv)
      [] OTHER -> {0}

WrongArgCount == (Len(last.argv) - 2) \notin ExpectedArgs(last.cmd)

NoSideEffect ==
    \A i \in 1..Len(last.trace) :
        last.trace[i] \notin FsChanges \cup Subprocesses \cup Delegations

\* The commands whose code compares len(sys.argv) with a number.
CountChecked == {"gen_monolithic_register_modules", "gen_python_init_module",
                 "update_cmake_prefab_lib", "android_archive_unstripped_libs"}

\* C8 as stated: every command, given a number of arguments other than the
\* number it expects, ends with a misuse error before any filesystem change
\* or subprocess.
C8_EveryCommandRejectsWrongCount ==
    (last.cmd # "" /\ ~last.batch /\ WrongArgCount)
    => (last.result \in {CleanError, SystemExit255} /\ NoSideEffect)

\* C8 amended: the commands that check their argument count reject a wrong
\* count before any filesystem change, subprocess or delegation:
\* gen_monolithic_register_modules, gen_python_init_module,
\* update_cmake_prefab_lib and android_archive_unstripped_libs with a clean
\* error, py_examine by printing an error and exiting with status 255,
\* wsl_path_to_win by printing its sentinel and returning normally.
C8_CheckedCommandsRejectWrongCount ==
    (~last.batch /\ WrongArgCount)
    => /\ last.cmd \in CountChecked
            => /\ last.result = CleanError
               /\ last.msg # BatchMsg
               /\ last.trace = <<>>
       /\ last.cmd = "py_examine"
            => /\ last.result = SystemExit255
               /\ last.trace = <<>>
               /\ Len(last.out) = 1
       /\ last.cmd = "wsl_path_to_win"
            => /\ last.result = OK
               /\ last.out = <<Printed(Sentinel, "")>>
               /\ NoSideEffect
       /\ last.cmd \in {"gen_monolithic_register_modules",
                        "gen_python_init_module", "py_examine"}
            => genPre = last.pre
       /\ last.cmd = "update_cmake_prefab_lib" => prefabPre = last.pre
       /\ last.cmd = "android_archive_unstripped_libs"
            => archivePre = last.pre

\* update_cmake_prefab_lib refusing an extra argument.
C8_Witness ==
    /\ Ran("update_cmake_prefab_lib")
    /\ Len(last.argv) = 6
    /\ last.result = CleanError
    /\ last.trace = <<>>

\* C9: in batch mode every command fails with the misuse error of the
\* not-in-batch guard before it reads its arguments, touches the
\* filesystem, starts a subprocess or delegates.
C9_EveryCommandRefusesBatch ==
    (last.cmd # "" /\ last.batch)
    => /\ last.result = CleanError
       /\ last.msg = BatchMsg
       /\ last.trace = <<>>

====
